---- MODULE Spec2Model ----
(***************************************************************************)
(* jwt-express: the JWT object (sign / resign / verify / revoke / store),  *)
(* the module-level init and create, the entry middleware returned by      *)
(* init, and the guards, modelled from src/jwt-express.js.                 *)
(*                                                                         *)
(* Time is Date.now() in milliseconds.  JavaScript values held in a        *)
(* payload are tagged records [t, v]; a payload is a total function over   *)
(* Keys in which a missing key holds Undefined (JSON drops undefined       *)
(* members, and payload[key] reads undefined for both).                    *)
(*                                                                         *)
(* Spec follows one JWT object through its life: create makes it, or the   *)
(* entry middleware makes it for a request (attach), and the application   *)
(* then calls its methods.  SpecSession follows one client through the     *)
(* entry middleware, the guards and res.jwt, request after request.        *)
(*                                                                         *)
(* The jsonwebtoken calls (utils.sign, utils.verify, utils.decode) are     *)
(* modelled at their call sites with signOptions = verifyOptions = {} (the *)
(* defaults of init): sign adds the issued-at claim iat (seconds) when the *)
(* payload has none, verify rejects a bad signature or key before it looks *)
(* at exp, and reports TokenExpiredError when exp <= the clock in seconds. *)
(***************************************************************************)
EXTENDS Integers, FiniteSets, Sequences, TLC

VARIABLES now, options, secret, initialized, jwt, last, revokeCalls,
          req, res, clear, jar, guard, thrown, clearLog, json

tokenVars == <<jwt, last, revokeCalls>>
moduleVars == <<options, secret, initialized>>
sessionVars == <<req, res, clear, jar>>
(* the guard made by require, the last exception thrown to a caller, the   *)
(* last call of the module's clear, and the values toJSON returned         *)
otherVars == <<guard, thrown, clearLog, json>>

(* ------------------------------ bounds --------------------------------- *)
MaxTicks == 3
MaxRevoke == 1
MaxJSON == 2

(* --------------------------- JavaScript values ------------------------- *)
Undefined == [t |-> "undefined", v |-> 0]
Num(n) == [t |-> "number", v |-> n]
(* booleans hold v = 1 for true and 0 for false; Str(n) is the string of   *)
(* the decimal digit n, so that comparing two strings by code units and    *)
(* comparing their digits agree                                            *)
Bool(b) == [t |-> "boolean", v |-> IF b THEN 1 ELSE 0]
Str(n) == [t |-> "string", v |-> n]

Truthy(x) ==
    CASE x.t = "undefined" -> FALSE
      [] x.t = "number" -> x.v # 0
      [] x.t = "boolean" -> x.v # 0
      [] x.t = "null" -> FALSE
      [] OTHER -> TRUE

(* ToNumber: undefined gives NaN; true 1, false 0; a digit string its digit *)
IsNaN(x) == x.t = "undefined"

(* a == b *)
LooseEq(a, b) ==
    IF a.t = b.t THEN a.v = b.v
    ELSE IF IsNaN(a) \/ IsNaN(b) THEN FALSE
    ELSE a.v = b.v

(* a === b *)
StrictEq(a, b) == a.t = b.t /\ a.v = b.v

(* a < b and a <= b: two strings compare by code units, anything else by   *)
(* ToNumber, and a comparison with NaN is false                            *)
Less(a, b) == ~IsNaN(a) /\ ~IsNaN(b) /\ a.v < b.v
LessEq(a, b) == ~IsNaN(a) /\ ~IsNaN(b) /\ a.v <= b.v

Keys == {"level", "admin", "exp", "iat", "stales"}
EmptyPayload == [k \in Keys |-> Undefined]

(* payloads a caller hands to create / sign / res.jwt *)
Claims ==
    { EmptyPayload,
      [EmptyPayload EXCEPT !["level"] = Num(3)],
      [EmptyPayload EXCEPT !["exp"] = Num(2)],
      [EmptyPayload EXCEPT !["level"] = Num(4), !["stales"] = Num(1)] }

Secrets == {"k1", "k2"}

(* ------------------------------ raw tokens ----------------------------- *)
NoToken == [kind |-> "undefined", payload |-> EmptyPayload, key |-> ""]
EmptyToken == [kind |-> "empty", payload |-> EmptyPayload, key |-> ""]
Malformed == [kind |-> "malformed", payload |-> EmptyPayload, key |-> ""]
Tamper(tok) == IF tok.kind = "signed" THEN [tok EXCEPT !.kind = "tampered"] ELSE tok

Timestamp == now \div 1000

utils_sign(payload, key) ==
    [kind |-> "signed",
     payload |-> [payload EXCEPT !["iat"] =
                     IF Truthy(payload["iat"]) THEN payload["iat"] ELSE Num(Timestamp)],
     key |-> key]

utils_verify(tok, key) ==
    IF tok.kind # "signed" \/ tok.key # key
    THEN [ok |-> FALSE, name |-> "JsonWebTokenError", payload |-> EmptyPayload]
    ELSE IF tok.payload["exp"].t = "number" /\ Timestamp >= tok.payload["exp"].v
    THEN [ok |-> FALSE, name |-> "TokenExpiredError", payload |-> EmptyPayload]
    ELSE [ok |-> TRUE, name |-> "", payload |-> tok.payload]

(* decode returns null for anything that is not a JWT *)
Null == [k \in Keys |-> [t |-> "null", v |-> 0]]

utils_decode(tok) ==
    IF tok.kind \in {"signed", "tampered"} THEN tok.payload ELSE Null

(* x || {} *)
OrEmpty(x) == IF x = Null THEN EmptyPayload ELSE x

(* ------------------------------ options -------------------------------- *)
NoOptions == [cookies |-> FALSE, refresh |-> FALSE, stales |-> 0, verify |-> "unset"]
StalesChoices == {0, 1000}
VerifyHooks == {"allow", "deny"}
OptionChoices ==
    [cookies : BOOLEAN, refresh : BOOLEAN, stales : StalesChoices, verify : VerifyHooks]
TokenOptionChoices == { o \in OptionChoices : o.cookies }

options_verify(j) == options.verify # "deny"

(* ------------------------------ JWT object ----------------------------- *)
JWT(s) ==
    [token |-> EmptyToken, payload |-> EmptyPayload, secret |-> s,
     valid |-> FALSE, expired |-> FALSE, stale |-> TRUE]

NoJWT == [token |-> NoToken, payload |-> EmptyPayload, secret |-> "",
          valid |-> FALSE, expired |-> FALSE, stale |-> FALSE]

JWT_sign_keeps_expired(j, payload) ==
    LET p == [payload EXCEPT !["stales"] = Num(now + options.stales)]
    IN [j EXCEPT !.payload = p,
                 !.token = utils_sign(p, j.secret),
                 !.valid = TRUE,
                 !.stale = FALSE]

JWT_sign(j, payload) ==
    LET p == [payload EXCEPT !["stales"] = Num(now + options.stales)]
    IN [j EXCEPT !.payload = p,
                 !.token = utils_sign(p, j.secret),
                 !.valid = TRUE,
                 !.expired = FALSE,
                 !.stale = FALSE]

JWT_resign_no_stamp(j) ==
    [j EXCEPT !.token = utils_sign(j.payload, j.secret),
              !.valid = TRUE,
              !.expired = FALSE,
              !.stale = FALSE]

JWT_resign(j) == JWT_sign(j, j.payload)

JWT_verify_no_fallback(j, token) ==
    LET tok == IF token.kind = "undefined" THEN EmptyToken ELSE token
        r == utils_verify(tok, j.secret)
        j1 == IF r.ok
              THEN [j EXCEPT !.token = tok, !.payload = r.payload, !.valid = TRUE]
              ELSE [j EXCEPT !.token = tok, !.payload = utils_decode(tok),
                             !.expired = IF r.name = "TokenExpiredError"
                                         THEN TRUE ELSE j.expired]
        j2 == IF j1.valid /\ ~options_verify(j1)
              THEN [j1 EXCEPT !.valid = FALSE] ELSE j1
    IN IF Truthy(j2.payload["stales"]) /\ now <= j2.payload["stales"].v
       THEN [j2 EXCEPT !.stale = FALSE] ELSE j2

JWT_verify_keeps_payload(j, token) ==
    LET tok == IF token.kind = "undefined" THEN EmptyToken ELSE token
        r == utils_verify(tok, j.secret)
        j1 == IF r.ok
              THEN [j EXCEPT !.token = tok, !.valid = TRUE]
              ELSE [j EXCEPT !.token = tok, !.payload = OrEmpty(utils_decode(tok)),
                             !.expired = IF r.name = "TokenExpiredError"
                                         THEN TRUE ELSE j.expired]
        j2 == IF j1.valid /\ ~options_verify(j1)
              THEN [j1 EXCEPT !.valid = FALSE] ELSE j1
    IN IF Truthy(j2.payload["stales"]) /\ now <= j2.payload["stales"].v
       THEN [j2 EXCEPT !.stale = FALSE] ELSE j2

JWT_verify(j, token) ==
    LET tok == IF token.kind = "undefined" THEN EmptyToken ELSE token
        r == utils_verify(tok, j.secret)
        j1 == IF r.ok
              THEN [j EXCEPT !.token = tok, !.payload = r.payload, !.valid = TRUE]
              ELSE [j EXCEPT !.token = tok, !.payload = OrEmpty(utils_decode(tok)),
                             !.expired = IF r.name = "TokenExpiredError"
                                         THEN TRUE ELSE j.expired]
        j2 == IF j1.valid /\ ~options_verify(j1)
              THEN [j1 EXCEPT !.valid = FALSE] ELSE j1
    IN IF Truthy(j2.payload["stales"]) /\ now <= j2.payload["stales"].v
       THEN [j2 EXCEPT !.stale = FALSE] ELSE j2

JWT_toJSON_with_secret(j) ==
    [token |-> j.token, payload |-> j.payload, secret |-> j.secret,
     valid |-> j.valid, expired |-> j.expired, stale |-> j.stale]

JWT_toJSON(j) ==
    [token |-> j.token, payload |-> j.payload,
     valid |-> j.valid, expired |-> j.expired, stale |-> j.stale]

(* ------------------------------ history -------------------------------- *)
(* last records the most recent call on the JWT object: its name, its      *)
(* token or payload argument, the three flags the object had before the    *)
(* call, and whether the clock has moved since the call.                   *)
Flags(j) == [valid |-> j.valid, expired |-> j.expired, stale |-> j.stale]

NoCall == [op |-> "none", token |-> NoToken, payload |-> EmptyPayload,
           pre |-> Flags(NoJWT), ticked |-> FALSE]

Call(op, tok, payload, j) ==
    [op |-> op, token |-> tok, payload |-> payload, pre |-> Flags(j), ticked |-> FALSE]

(* ------------------------- requests and responses ---------------------- *)
Reqs == {"A", "B"}

(* req[r]: the cookie and the Authorization header token the client sent,  *)
(* the JWT attached under options.reqProperty (NoJWT: nothing attached),   *)
(* the JWT as the entry middleware's verify left it (before any refresh),  *)
(* what the last middleware handed to next ("ok": no error), which         *)
(* middleware that was, how many times it called next, and the fields of   *)
(* the error of require.                                                   *)
NoErr == [key |-> "", data |-> Undefined, operator |-> "", value |-> Undefined]

NoReq == [stage |-> "idle", cookie |-> NoToken, auth |-> NoToken, jwt |-> NoJWT,
          seen |-> NoJWT, next |-> "none", by |-> "none", nexts |-> 0, err |-> NoErr]

(* res[r]: the cookie the response sets (NoToken: none, ClearedCookie: the *)
(* cookie clearCookie writes, which makes the client drop it), whether     *)
(* res.jwt is installed, the number of resign and store calls the entry    *)
(* middleware made for this request, and whether this response object is   *)
(* one the entry middleware made a clear closure over (a new request in    *)
(* the same slot has a new response object).                               *)
ClearedCookie == [kind |-> "cleared", payload |-> EmptyPayload, key |-> ""]

NoRes == [cookie |-> NoToken, issue |-> FALSE, resigns |-> 0, stores |-> 0,
          bound |-> FALSE]

JWT_store(j, cookie) == IF options.cookies THEN j.token ELSE cookie

(* --------------------------- entry middleware -------------------------- *)
ExtractToken(cookie, auth) ==
    IF options.cookies THEN cookie
    ELSE IF auth # NoToken THEN auth
    ELSE NoToken

RefreshDue_ignores_stale(j) == j.valid /\ options.refresh

RefreshDue(j) == j.valid /\ ~j.stale /\ options.refresh

EntryVerified(token) == JWT_verify(JWT(secret), token)

EntryJWT(token) ==
    LET j0 == EntryVerified(token)
    IN IF RefreshDue(j0) THEN JWT_resign(j0) ELSE j0

(* the number of calls of next one run of the middleware of active makes *)
active_nexts_no_else(j) ==
    (IF ~j.valid THEN 1 ELSE 0) + (IF j.stale THEN 1 ELSE 1)

active_nexts(j) ==
    IF ~j.valid THEN 1
    ELSE IF j.stale THEN 1
    ELSE 1

active_result_stale_first(j) ==
    IF j.stale THEN "JWT is stale"
    ELSE IF ~j.valid THEN "JWT is invalid"
    ELSE "ok"

active_result(j) ==
    IF ~j.valid THEN "JWT is invalid"
    ELSE IF j.stale THEN "JWT is stale"
    ELSE "ok"

(* ------------------------------- guards -------------------------------- *)
valid_result_needs_jwt(j) == IF j # NoJWT /\ ~j.valid THEN "JWT is invalid" ELSE "ok"

valid_result(j) == IF ~j.valid THEN "JWT is invalid" ELSE "ok"

Operators == {"==", "===", "!=", "!==", "<", "<=", ">", ">="}

require_ok_gt_as_ge(data, operator, value) ==
    IF operator = "==" THEN LooseEq(data, value)
    ELSE IF operator = "===" THEN StrictEq(data, value)
    ELSE IF operator = "!=" THEN ~LooseEq(data, value)
    ELSE IF operator = "!==" THEN ~StrictEq(data, value)
    ELSE IF operator = "<" THEN Less(data, value)
    ELSE IF operator = "<=" THEN LessEq(data, value)
    ELSE IF operator = ">" THEN LessEq(value, data)
    ELSE IF operator = ">=" THEN LessEq(value, data)
    ELSE FALSE

(* the chain of comparisons in the middleware of require; ok stays         *)
(* undefined, which is falsy, when no branch matches                       *)
require_ok(data, operator, value) ==
    IF operator = "==" THEN LooseEq(data, value)
    ELSE IF operator = "===" THEN StrictEq(data, value)
    ELSE IF operator = "!=" THEN ~LooseEq(data, value)
    ELSE IF operator = "!==" THEN ~StrictEq(data, value)
    ELSE IF operator = "<" THEN Less(data, value)
    ELSE IF operator = "<=" THEN LessEq(data, value)
    ELSE IF operator = ">" THEN Less(value, data)
    ELSE IF operator = ">=" THEN LessEq(value, data)
    ELSE FALSE

(* ------------------------------ other state --------------------------- *)
(* guard: the closure variables key, operator and value of the middleware  *)
(* require returned ("" : undefined).                                      *)
NoGuard == [built |-> FALSE, key |-> "", operator |-> "", value |-> Undefined]

(* thrown: the exception the last failing call threw to its caller *)
NoThrow == [by |-> "none", name |-> "none"]

(* clearLog: the last call of the module's clear: the request whose        *)
(* handler called it, the response it acted on, whether it threw, and      *)
(* whether init had been called.                                           *)
NoClear == [called |-> FALSE, caller |-> "none", target |-> "none",
            threw |-> FALSE, inited |-> FALSE]

(* ------------------------------ actions -------------------------------- *)
Init ==
    /\ now = 1000
    /\ options = NoOptions
    /\ secret = ""
    /\ initialized = FALSE
    /\ jwt = NoJWT
    /\ last = NoCall
    /\ revokeCalls = 0
    /\ req = [r \in Reqs |-> NoReq]
    /\ res = [r \in Reqs |-> NoRes]
    /\ clear = "uninitialized"
    /\ jar = NoToken
    /\ guard = NoGuard
    /\ thrown = NoThrow
    /\ clearLog = NoClear
    /\ json = <<>>

Tick ==
    /\ now < 1000 + 500 * MaxTicks
    /\ now' = now + 500
    /\ last' = [last EXCEPT !.ticked = TRUE]
    /\ UNCHANGED <<moduleVars, jwt, revokeCalls, sessionVars>>
    /\ UNCHANGED otherVars

init(s, o) ==
    /\ ~initialized
    /\ IF s = ""
       THEN /\ thrown' = [by |-> "init", name |-> "ReferenceError"]
            /\ UNCHANGED <<moduleVars, guard, clearLog, json>>
       ELSE /\ options' = o
            /\ secret' = s
            /\ initialized' = TRUE
            /\ UNCHANGED otherVars
    /\ UNCHANGED <<now, tokenVars, sessionVars>>

(* ---- one JWT object: made by create or by the entry middleware -------- *)
create(s, payload) ==
    /\ initialized
    /\ IF s = ""
       THEN /\ thrown' = [by |-> "create", name |-> "ReferenceError"]
            /\ UNCHANGED <<jwt, last, guard, clearLog, json>>
       ELSE /\ jwt' = JWT_sign(JWT(s), payload)
            /\ last' = Call("create", NoToken, payload, JWT(s))
            /\ UNCHANGED otherVars
    /\ UNCHANGED <<now, moduleVars, revokeCalls, sessionVars>>

(* the token a request presents: nothing, garbage, the token of the JWT   *)
(* the application last held, a tampered copy, or one signed with another  *)
(* key                                                                     *)
VerifyInputs ==
    { NoToken, EmptyToken, Malformed, jwt.token, Tamper(jwt.token),
      [jwt.token EXCEPT !.key = IF jwt.token.key = "k1" THEN "k2" ELSE "k1"] }

(* the entry middleware handling a request that presents tok, a request    *)
(* outside the slots of req and res: jwt is the JWT it attaches, and the   *)
(* module's clear becomes the closure over that request's response         *)
(* ("other": a response in no slot)                                        *)
attach(tok) ==
    /\ initialized
    /\ jwt' = EntryJWT(tok)
    /\ last' = [Call("attach", tok, EmptyPayload, JWT(secret))
                  EXCEPT !.op = IF RefreshDue(EntryVerified(tok))
                                THEN "attach+resign" ELSE "attach"]
    /\ clear' = "other"
    /\ UNCHANGED <<now, moduleVars, revokeCalls, req, res, jar>>
    /\ UNCHANGED otherVars

sign(payload) ==
    /\ jwt # NoJWT
    /\ jwt' = JWT_sign(jwt, payload)
    /\ last' = Call("sign", NoToken, payload, jwt)
    /\ UNCHANGED <<now, moduleVars, revokeCalls, sessionVars>>
    /\ UNCHANGED otherVars

resign ==
    /\ jwt # NoJWT
    /\ jwt' = JWT_resign(jwt)
    /\ last' = Call("resign", NoToken, jwt.payload, jwt)
    /\ UNCHANGED <<now, moduleVars, revokeCalls, sessionVars>>
    /\ UNCHANGED otherVars

verify(tok) ==
    /\ jwt # NoJWT
    /\ jwt' = JWT_verify(jwt, tok)
    /\ last' = Call("verify", tok, EmptyPayload, jwt)
    /\ UNCHANGED <<now, moduleVars, revokeCalls, sessionVars>>
    /\ UNCHANGED otherVars

revoke ==
    /\ jwt # NoJWT
    /\ revokeCalls < MaxRevoke
    /\ revokeCalls' = revokeCalls + 1
    /\ last' = Call("revoke", NoToken, EmptyPayload, jwt)
    /\ UNCHANGED <<now, moduleVars, jwt, sessionVars>>
    /\ UNCHANGED otherVars

(* ---- one client and its requests -------------------------------------- *)
(* the client sends either the cookie or the Authorization header; the    *)
(* token is its stored cookie, a tampered copy of it, garbage, or nothing. *)
Presented == { NoToken, Malformed, jar, Tamper(jar) }

Arrive(r, c, a) ==
    /\ initialized
    /\ req[r].stage = "idle"
    /\ c = NoToken \/ a = NoToken
    /\ req' = [req EXCEPT ![r] = [NoReq EXCEPT !.stage = "arrived", !.cookie = c, !.auth = a]]
    /\ res' = [res EXCEPT ![r] = NoRes]
    /\ UNCHANGED <<now, moduleVars, tokenVars, clear, jar>>
    /\ UNCHANGED otherVars

(* the middleware returned by init *)
Entry(r) ==
    /\ req[r].stage = "arrived"
    /\ LET token == ExtractToken(req[r].cookie, req[r].auth)
           j0 == EntryVerified(token)
           j1 == EntryJWT(token)
       IN /\ req' = [req EXCEPT ![r].stage = "entered",
                                ![r].jwt = j1,
                                ![r].seen = j0,
                                ![r].next = "ok",
                                ![r].by = "entry",
                                ![r].nexts = 1]
          /\ res' = [res EXCEPT ![r].cookie = IF RefreshDue(j0) THEN JWT_store(j1, @) ELSE @,
                                ![r].resigns = IF RefreshDue(j0) THEN @ + 1 ELSE @,
                                ![r].stores = IF RefreshDue(j0) THEN @ + 1 ELSE @,
                                ![r].issue = TRUE,
                                ![r].bound = TRUE]
    /\ clear' = r
    /\ UNCHANGED <<now, moduleVars, tokenVars, jar>>
    /\ UNCHANGED otherVars

active(r) ==
    /\ req[r].stage \in {"arrived", "entered"}
    /\ req' = [req EXCEPT ![r].next = active_result(req[r].jwt), ![r].by = "active",
                          ![r].nexts = active_nexts(req[r].jwt)]
    /\ UNCHANGED <<now, moduleVars, tokenVars, res, clear, jar>>
    /\ UNCHANGED otherVars

(* res.jwt(payload), installed by the entry middleware *)
res_jwt(r, payload) ==
    /\ req[r].stage = "entered"
    /\ res[r].issue
    /\ res' = [res EXCEPT ![r].cookie = JWT_store(JWT_sign(JWT(secret), payload), @)]
    /\ UNCHANGED <<now, moduleVars, tokenVars, req, clear, jar>>
    /\ UNCHANGED otherVars

(* the response reaches the client, whose cookie store follows Set-Cookie *)
Finish(r) ==
    /\ req[r].stage \in {"arrived", "entered"}
    /\ jar' = IF res[r].cookie = NoToken THEN jar
              ELSE IF res[r].cookie = ClearedCookie THEN NoToken
              ELSE res[r].cookie
    /\ req' = [req EXCEPT ![r] = NoReq]
    /\ res' = [res EXCEPT ![r] = NoRes]
    /\ UNCHANGED <<now, moduleVars, tokenVars, clear>>
    /\ UNCHANGED otherVars

(* ---- guards ----------------------------------------------------------- *)
require_unchecked(key, operator, value) ==
    IF key = ""
    THEN /\ thrown' = [by |-> "require", name |-> "ReferenceError"]
         /\ UNCHANGED <<now, moduleVars, tokenVars, sessionVars, guard, clearLog, json>>
    ELSE /\ guard' = [built |-> TRUE, key |-> key, operator |-> operator, value |-> value]
         /\ UNCHANGED <<now, moduleVars, tokenVars, sessionVars, thrown, clearLog, json>>

(* require(key, operator, value): throws, or returns the middleware whose  *)
(* closure holds the three parameters                                      *)
require(key, operator, value) ==
    IF key = ""
    THEN /\ thrown' = [by |-> "require", name |-> "ReferenceError"]
         /\ UNCHANGED <<now, moduleVars, tokenVars, sessionVars, guard, clearLog, json>>
    ELSE IF operator # "" /\ operator \notin Operators
    THEN /\ thrown' = [by |-> "require", name |-> "JWTExpressError"]
         /\ UNCHANGED <<now, moduleVars, tokenVars, sessionVars, guard, clearLog, json>>
    ELSE /\ guard' = [built |-> TRUE, key |-> key, operator |-> operator, value |-> value]
         /\ UNCHANGED <<now, moduleVars, tokenVars, sessionVars, thrown, clearLog, json>>

require_middleware_checks_valid(r) ==
    /\ guard.built
    /\ req[r].stage \in {"arrived", "entered"}
    /\ LET j == IF req[r].jwt = NoJWT THEN [payload |-> EmptyPayload, valid |-> FALSE]
                ELSE req[r].jwt
           data == j.payload[guard.key]
           operator == IF guard.operator = "" THEN "==" ELSE guard.operator
           value == IF guard.operator = "" THEN Bool(TRUE) ELSE guard.value
           ok == j.valid /\ require_ok(data, operator, value)
       IN /\ guard' = [guard EXCEPT !.operator = operator, !.value = value]
          /\ req' = [req EXCEPT
                       ![r].next = IF ok THEN "ok" ELSE "JWT is insufficient",
                       ![r].by = "require",
                       ![r].nexts = 1,
                       ![r].err = IF ok THEN NoErr
                                  ELSE [key |-> guard.key, data |-> data,
                                        operator |-> operator, value |-> value]]
    /\ UNCHANGED <<now, moduleVars, tokenVars, res, clear, jar, thrown, clearLog, json>>

require_middleware_keeps_value(r) ==
    /\ guard.built
    /\ req[r].stage \in {"arrived", "entered"}
    /\ LET j == IF req[r].jwt = NoJWT THEN [payload |-> EmptyPayload] ELSE req[r].jwt
           data == j.payload[guard.key]
           operator == IF guard.operator = "" THEN "==" ELSE guard.operator
           value == guard.value
           ok == require_ok(data, operator, value)
       IN /\ guard' = [guard EXCEPT !.operator = operator, !.value = value]
          /\ req' = [req EXCEPT
                       ![r].next = IF ok THEN "ok" ELSE "JWT is insufficient",
                       ![r].by = "require",
                       ![r].nexts = 1,
                       ![r].err = IF ok THEN NoErr
                                  ELSE [key |-> guard.key, data |-> data,
                                        operator |-> operator, value |-> value]]
    /\ UNCHANGED <<now, moduleVars, tokenVars, res, clear, jar, thrown, clearLog, json>>

(* the middleware require returned, handling request r *)
require_middleware(r) ==
    /\ guard.built
    /\ req[r].stage \in {"arrived", "entered"}
    /\ LET j == IF req[r].jwt = NoJWT THEN [payload |-> EmptyPayload] ELSE req[r].jwt
           data == j.payload[guard.key]
           operator == IF guard.operator = "" THEN "==" ELSE guard.operator
           value == IF guard.operator = "" THEN Bool(TRUE) ELSE guard.value
           ok == require_ok(data, operator, value)
       IN /\ guard' = [guard EXCEPT !.operator = operator, !.value = value]
          /\ req' = [req EXCEPT
                       ![r].next = IF ok THEN "ok" ELSE "JWT is insufficient",
                       ![r].by = "require",
                       ![r].nexts = 1,
                       ![r].err = IF ok THEN NoErr
                                  ELSE [key |-> guard.key, data |-> data,
                                        operator |-> operator, value |-> value]]
    /\ UNCHANGED <<now, moduleVars, tokenVars, res, clear, jar, thrown, clearLog, json>>

(* the middleware valid returned, handling request r *)
valid(r) ==
    /\ req[r].stage \in {"arrived", "entered"}
    /\ req' = [req EXCEPT ![r].next = valid_result(req[r].jwt), ![r].by = "valid",
                          ![r].nexts = 1]
    /\ UNCHANGED <<now, moduleVars, tokenVars, res, clear, jar>>
    /\ UNCHANGED otherVars

(* ---- the handler of request r calls methods of req.jwt ---------------- *)
req_jwt_sign(r, payload) ==
    /\ req[r].stage = "entered"
    /\ req' = [req EXCEPT ![r].jwt = JWT_sign(@, payload)]
    /\ UNCHANGED <<now, moduleVars, tokenVars, res, clear, jar>>
    /\ UNCHANGED otherVars

req_jwt_resign(r) ==
    /\ req[r].stage = "entered"
    /\ req' = [req EXCEPT ![r].jwt = JWT_resign(@)]
    /\ UNCHANGED <<now, moduleVars, tokenVars, res, clear, jar>>
    /\ UNCHANGED otherVars

req_jwt_store(r) ==
    /\ req[r].stage = "entered"
    /\ res' = [res EXCEPT ![r].cookie = JWT_store(req[r].jwt, @)]
    /\ UNCHANGED <<now, moduleVars, tokenVars, req, clear, jar>>
    /\ UNCHANGED otherVars

(* ---- toJSON ----------------------------------------------------------- *)
(* json keeps what the calls of toJSON on the JWT object returned *)
toJSON ==
    /\ jwt # NoJWT
    /\ Len(json) < MaxJSON
    /\ json' = Append(json, JWT_toJSON(jwt))
    /\ UNCHANGED <<now, moduleVars, tokenVars, sessionVars, guard, thrown, clearLog>>

(* ---- clear ------------------------------------------------------------ *)
(* the module's clear, called by the handler of request c or, outside any  *)
(* request, by the application ("app").  Until the entry middleware has    *)
(* run, clear is the function that throws; afterwards it is the closure    *)
(* over the response of the request that went through the entry middleware *)
(* last: the variable clear names that request's slot, and the closure's   *)
(* response is the one in that slot only while res[clear].bound; once that *)
(* response has finished, or when it is a response in no slot, clearCookie *)
(* acts on that response and on none of res.                               *)
ClearTarget == IF clear \in Reqs /\ res[clear].bound THEN clear ELSE "finished"

Callers == Reqs \cup {"app"}

module_clear(c) ==
    /\ c \in Reqs => req[c].stage \in {"arrived", "entered"}
    /\ IF clear = "uninitialized"
       THEN /\ thrown' = [by |-> "clear", name |-> "JWTExpressError"]
            /\ clearLog' = [called |-> TRUE, caller |-> c, target |-> "none",
                            threw |-> TRUE, inited |-> initialized]
            /\ UNCHANGED res
       ELSE /\ res' = [r \in Reqs |->
                         IF options.cookies /\ r = ClearTarget
                         THEN [res[r] EXCEPT !.cookie = ClearedCookie] ELSE res[r]]
            /\ clearLog' = [called |-> TRUE, caller |-> c, target |-> ClearTarget,
                            threw |-> FALSE, inited |-> initialized]
            /\ UNCHANGED thrown
    /\ UNCHANGED <<now, moduleVars, tokenVars, req, clear, jar, guard, json>>

vars == <<now, options, secret, initialized, jwt, last, revokeCalls,
          req, res, clear, jar, guard, thrown, clearLog, json>>

Next ==
    \/ Tick
    \/ \E o \in TokenOptionChoices : init("k1", o)
    \/ \E s \in Secrets, c \in Claims : create(s, c)
    \/ \E t \in VerifyInputs : attach(t)
    \/ \E c \in Claims : sign(c)
    \/ resign
    \/ \E t \in VerifyInputs : verify(t)
    \/ revoke

Spec == Init /\ [][Next]_vars

(* one client whose requests are handled one after the other *)
SessionNext ==
    \/ Tick
    \/ \E o \in OptionChoices : init("k1", o)
    \/ \E x \in Presented : Arrive("A", x, NoToken) \/ Arrive("A", NoToken, x)
    \/ Entry("A")
    \/ active("A")
    \/ \E c \in Claims : res_jwt("A", c)
    \/ Finish("A")

SpecSession == Init /\ [][SessionNext]_vars

(* one request at a time through the entry middleware and the guards; the  *)
(* client presents nothing, garbage, a token the server issued with        *)
(* res.jwt under the current options, or a tampered one.  Guards are built *)
(* while no request is in the chain of middleware.                         *)
GuardKeys == {"level", "admin"}
GuardValues == {Undefined, Bool(TRUE), Bool(FALSE), Num(1), Num(3), Num(4), Str(3)}
GuardClaims == { [EmptyPayload EXCEPT !["level"] = v, !["admin"] = Bool(v.t = "number")] :
                    v \in GuardValues }
GuardOptionChoices ==
    { o \in OptionChoices : o.cookies /\ ~o.refresh /\ o.stales = 1000 }
Issued(c) == JWT_sign(JWT(secret), c).token
GuardPresented ==
    {NoToken, Malformed, Tamper(Issued([EmptyPayload EXCEPT !["level"] = Num(4)]))}
        \cup { Issued(c) : c \in GuardClaims }

GuardNext ==
    \/ \E o \in GuardOptionChoices : init("k1", o)
    \/ /\ req["A"].stage = "idle"
       /\ \E k \in GuardKeys, op \in Operators \cup {""}, v \in GuardValues : require(k, op, v)
    \/ \E x \in GuardPresented : Arrive("A", x, NoToken)
    \/ Entry("A")
    \/ valid("A")
    \/ active("A")
    \/ require_middleware("A")
    \/ Finish("A")

SpecGuards == Init /\ [][GuardNext]_vars

(* construction of the module and of guards with every kind of argument,   *)
(* and requests through what was constructed                               *)
BadOperator == "=>"
ConfigPresented == {NoToken, Issued([EmptyPayload EXCEPT !["level"] = Num(4)])}

ConfigNext ==
    \/ \E s \in {"", "k1"}, o \in GuardOptionChoices : init(s, o)
    \/ \E s \in {"", "k1"} : create(s, EmptyPayload)
    \/ /\ req["A"].stage = "idle"
       /\ \E k \in {"", "level"}, op \in {"", ">", BadOperator}, v \in {Undefined, Num(3)} :
              require(k, op, v)
    \/ \E x \in ConfigPresented : Arrive("A", x, NoToken)
    \/ Entry("A")
    \/ valid("A")
    \/ require_middleware("A")
    \/ Finish("A")

SpecConfig == Init /\ [][ConfigNext]_vars

(* two requests in flight at once, whose handlers call clear, a guard      *)
(* built with only a key, and the handler of A calling sign, resign and    *)
(* store of req.jwt                                                        *)
ClearOptionChoices ==
    { o \in OptionChoices : ~o.refresh /\ o.stales = 1000 /\ o.verify = "allow" }

ClearNext ==
    \/ \E o \in ClearOptionChoices : init("k1", o)
    \/ /\ \A r \in Reqs : req[r].stage = "idle"
       /\ require("admin", "", Undefined)
    \/ \E r \in Reqs, x \in ConfigPresented : Arrive(r, x, NoToken)
    \/ \E r \in Reqs : Entry(r)
    \/ \E r \in Reqs : require_middleware(r)
    \/ \E c \in Callers : module_clear(c)
    \/ req_jwt_sign("A", [EmptyPayload EXCEPT !["level"] = Num(3)])
    \/ req_jwt_resign("A")
    \/ req_jwt_store("A")
    \/ \E r \in Reqs : Finish(r)

SpecClear == Init /\ [][ClearNext]_vars

(* toJSON applied to a JWT object in each state its methods leave it in:   *)
(* made by create and then perhaps verified, with the module's clear as it *)
(* was before or after a run of the entry middleware, or made by the entry *)
(* middleware for a request presenting the token of a created JWT          *)
JSONTokens(j) ==
    { NoToken, Malformed, j.token, Tamper(j.token),
      [j.token EXCEPT !.key = IF j.token.key = "k1" THEN "k2" ELSE "k1"] }

JSONSigned == { JWT_sign(JWT(s), c) : s \in Secrets, c \in Claims }

JSONCreated ==
    JSONSigned \cup UNION { { JWT_verify(j, t) : t \in JSONTokens(j) } : j \in JSONSigned }

JSONAttached == { EntryJWT(j.token) : j \in JSONSigned }

JSONInputs ==
    { [jwt |-> j, clear |-> c] : j \in JSONCreated, c \in {"uninitialized", "other"} }
        \cup { [jwt |-> j, clear |-> "other"] : j \in JSONAttached }

InitJSON ==
    /\ now \in {1000, 2000}
    /\ options \in TokenOptionChoices
    /\ secret = "k1"
    /\ initialized = TRUE
    /\ \E x \in JSONInputs : jwt = x.jwt /\ clear = x.clear
    /\ last = NoCall
    /\ revokeCalls = 0
    /\ req = [r \in Reqs |-> NoReq]
    /\ res = [r \in Reqs |-> NoRes]
    /\ jar = NoToken
    /\ guard = NoGuard
    /\ thrown = NoThrow
    /\ clearLog = NoClear
    /\ json = <<>>

JSONNext == toJSON

SpecJSON == InitJSON /\ [][JSONNext]_vars

(* two requests through the entry middleware and one guard of require,     *)
(* while the clock advances.  The clients present tokens that res.jwt      *)
(* issued when the clock read 1000, or tampered copies of them.            *)
PairClaims ==
    { [EmptyPayload EXCEPT !["level"] = Num(3)],
      [EmptyPayload EXCEPT !["level"] = Num(4)],
      [EmptyPayload EXCEPT !["level"] = Num(4), !["exp"] = Num(2)] }

IssuedAtStart(c) ==
    utils_sign([c EXCEPT !["stales"] = Num(1000 + options.stales), !["iat"] = Num(1)],
               secret)

PairPresented ==
    { IssuedAtStart(c) : c \in PairClaims } \cup { Tamper(IssuedAtStart(c)) : c \in PairClaims }

PairNext ==
    \/ Tick
    \/ \E o \in ClearOptionChoices : init("k1", o)
    \/ /\ \A r \in Reqs : req[r].stage = "idle"
       /\ \E op \in {"", ">", "=="} : require("level", op, Num(3))
    \/ \E r \in Reqs, x \in PairPresented : Arrive(r, x, NoToken) \/ Arrive(r, NoToken, x)
    \/ \E r \in Reqs : Entry(r)
    \/ \E r \in Reqs : require_middleware(r)
    \/ \E r \in Reqs : Finish(r)

SpecPair == Init /\ [][PairNext]_vars

TypeOK ==
    /\ now \in 1000..(1000 + 500 * MaxTicks)
    /\ jwt.valid \in BOOLEAN
    /\ \A r \in Reqs : req[r].stage \in {"idle", "arrived", "entered"}

(* ============================ properties =============================== *)
(* a verify call has just returned on the JWT object (the clock has not    *)
(* moved since); an attach that did not refresh leaves the object exactly  *)
(* as the verify of a newly constructed JWT left it                        *)
JustVerified == last.op \in {"verify", "attach"} /\ ~last.ticked
JustSigned == last.op \in {"create", "sign", "resign"} /\ ~last.ticked
CodecResult == utils_verify(jwt.token, jwt.secret)

(* C1: whatever was called on the JWT before, a verify whose token the     *)
(* codec rejects leaves valid = false.                                     *)
C1_RejectedVerifyLeavesInvalid ==
    (JustVerified /\ ~CodecResult.ok) => ~jwt.valid

(* C2: in every reachable state of a JWT, valid = true implies             *)
(* expired = false.                                                        *)
C2_ValidImpliesNotExpired == jwt.valid => ~jwt.expired

(* C3 as stated: sign(C) followed at once by verify of the resulting token *)
(* with the same key gives valid, not expired, not stale, and claims equal *)
(* to C plus the stale timestamp.                                          *)
RoundTripStep ==
    /\ JustSigned
    /\ last'.op = "verify"
    /\ ~last'.ticked
    /\ last'.token = jwt.token

C3_RoundTripAsStated ==
    [][RoundTripStep =>
         /\ jwt'.valid /\ ~jwt'.expired /\ ~jwt'.stale
         /\ jwt'.payload = [last.payload EXCEPT !["stales"] = Num(now + options.stales)]]_vars

(* C3 amended: when C carries no expiry at or before now and the           *)
(* additional verify function accepts the JWT, sign(C) followed at once by *)
(* verify of the resulting token with the same key (on the same JWT or on  *)
(* a newly constructed one) gives valid, not expired, not stale, and       *)
(* claims equal to C plus the stale timestamp plus the issued-at claim iat *)
(* that the codec adds when C has none.                                    *)
NotCodecExpired(payload) ==
    payload["exp"].t # "number" \/ Timestamp < payload["exp"].v

RoundTripClaims(c) ==
    [c EXCEPT !["stales"] = Num(now + options.stales),
              !["iat"] = IF Truthy(c["iat"]) THEN c["iat"] ELSE Num(now \div 1000)]

RoundTripResult(j, c) ==
    /\ j.valid /\ ~j.expired /\ ~j.stale
    /\ j.payload = RoundTripClaims(c)

C3_RoundTrip ==
    [][(RoundTripStep /\ NotCodecExpired(last.payload) /\ options.verify = "allow") =>
         /\ RoundTripResult(jwt', last.payload)
         /\ RoundTripResult(JWT_verify(JWT(jwt.secret), jwt.token), last.payload)]_vars

C3_Witness ==
    /\ last.op = "verify" /\ ~last.ticked
    /\ last.pre = [valid |-> TRUE, expired |-> FALSE, stale |-> FALSE]
    /\ jwt.valid /\ ~jwt.stale
    /\ jwt.payload["level"] = Num(3)
    /\ jwt.payload["stales"] = Num(now + options.stales)
    /\ jwt.payload["iat"] = Num(now \div 1000)

(* C4: after verify(t), expired is true iff the codec reported expiration  *)
(* for t in this call; an expired token gives expired = true, valid =      *)
(* false and claims from the unverified decode, and a token rejected for   *)
(* another reason gives valid = false and expired = false.                 *)
C4_ExpiredIffCodecExpired ==
    JustVerified =>
      /\ jwt.expired <=> (CodecResult.name = "TokenExpiredError")
      /\ ~CodecResult.ok => (~jwt.valid /\ jwt.payload = OrEmpty(utils_decode(jwt.token)))

(* C5: after verify(t), stale is false iff the claims contain a stale      *)
(* timestamp later than the current time.  The instant at which the        *)
(* timestamp equals the current time is counted as later, as the           *)
(* comparison Date.now() <= payload.stales of verify does; read strictly,  *)
(* the claim also fails at that one instant.                               *)
C5_StaleIffLater ==
    JustVerified =>
      (~jwt.stale <=> (jwt.payload["stales"].t = "number" /\ jwt.payload["stales"].v >= now))

(* C6: from any prior state of the JWT, sign(C) and resign() leave it with *)
(* a newly encoded token, valid = true, expired = false, stale = false and *)
(* a stale timestamp of now + options.stales over the claims given;        *)
(* resign() signs the claims the JWT held.                                 *)
C6_SignResets ==
    (last.op \in {"sign", "resign"} /\ ~last.ticked) =>
      /\ jwt.valid /\ ~jwt.expired /\ ~jwt.stale
      /\ jwt.payload["stales"] = Num(now + options.stales)
      /\ \A k \in Keys \ {"stales"} : jwt.payload[k] = last.payload[k]
      /\ jwt.token.kind = "signed"
      /\ jwt.token.key = jwt.secret
      /\ \A k \in Keys \ {"iat"} : jwt.token.payload[k] = jwt.payload[k]
      /\ jwt.token.payload["iat"].t = "number"

C6_Witness ==
    /\ last.op = "resign" /\ ~last.ticked
    /\ last.pre = [valid |-> FALSE, expired |-> TRUE, stale |-> TRUE]
    /\ jwt.valid /\ ~jwt.expired /\ ~jwt.stale
    /\ jwt.payload["stales"] = Num(now + options.stales)

(* C8: a token verified right after signing has stale = false; the same    *)
(* raw token verified again once the clock is past its stale timestamp has *)
(* stale = true, and valid stays true while the codec still accepts it.    *)
C8_StaleAfterWindow ==
    (last.op = "verify" /\ ~last.ticked /\ CodecResult.ok /\ options.verify = "allow") =>
      /\ jwt.valid
      /\ (now = jwt.payload["stales"].v - options.stales) => ~jwt.stale
      /\ (now > jwt.payload["stales"].v) => jwt.stale

(* ---- the entry middleware and the guards, under SpecSession ----------- *)
EntryStep(r) == req[r].stage = "arrived" /\ req'[r].stage = "entered"

SeenActive(r) == req'[r].seen.valid /\ ~req'[r].seen.stale

(* C7: for every request the entry middleware calls resign() and then      *)
(* store() exactly once if the verified incoming token is valid and not    *)
(* stale and options.refresh is on, and not at all otherwise; it sets no   *)
(* cookie for a request whose incoming token was invalid or stale.         *)
C7_RefreshExactlyWhenActive ==
    [][\A r \in Reqs : EntryStep(r) =>
         IF SeenActive(r) /\ options.refresh
         THEN /\ res'[r].resigns = 1 /\ res'[r].stores = 1
              /\ req'[r].jwt.valid /\ ~req'[r].jwt.stale
              /\ req'[r].jwt.payload["stales"] = Num(now + options.stales)
              /\ options.cookies => res'[r].cookie = req'[r].jwt.token
              /\ ~options.cookies => res'[r].cookie = NoToken
         ELSE /\ res'[r].resigns = 0 /\ res'[r].stores = 0
              /\ req'[r].jwt = req'[r].seen
              /\ res'[r].cookie = NoToken]_vars

C7_Witness ==
    /\ req["A"].stage = "entered"
    /\ req["A"].seen.valid /\ ~req["A"].seen.stale
    /\ res["A"].resigns = 1 /\ res["A"].stores = 1
    /\ res["A"].cookie = req["A"].jwt.token
    /\ res["A"].cookie # req["A"].seen.token

(* C9 as stated: with refresh on and cookie transport, a request that      *)
(* presents the token most recently persisted for the client, less than    *)
(* options.stales after it was persisted, is seen valid and not stale.     *)
SlidingStep(r) ==
    /\ EntryStep(r)
    /\ options.cookies /\ options.refresh
    /\ jar.kind = "signed"
    /\ req[r].cookie = jar

Gap(tok) == now - (tok.payload["stales"].v - options.stales)

C9_SlidingAsStated ==
    [][\A r \in Reqs : (SlidingStep(r) /\ Gap(jar) < options.stales) => SeenActive(r)]_vars

(* C9 amended: with refresh on and cookie transport, a request that        *)
(* presents the token most recently persisted for the client is seen not   *)
(* stale when at most options.stales have passed since it was persisted    *)
(* and stale when more have passed; when less than options.stales have     *)
(* passed, the token's expiry claim (if any) is still ahead and the        *)
(* additional verify function accepts it, it is seen valid and not stale   *)
(* and the middleware persists a token stamped now + options.stales.       *)
C9_Sliding ==
    [][\A r \in Reqs : SlidingStep(r) =>
         /\ req'[r].seen.stale <=> (Gap(jar) > options.stales)
         /\ (Gap(jar) < options.stales /\ NotCodecExpired(jar.payload)
               /\ options.verify = "allow") =>
              /\ SeenActive(r)
              /\ res'[r].cookie.kind = "signed"
              /\ res'[r].cookie.payload["stales"] = Num(now + options.stales)]_vars

C9_Witness ==
    /\ req["A"].stage = "entered"
    /\ options.cookies /\ options.refresh
    /\ now = 2000
    /\ req["A"].cookie = jar
    /\ jar.payload["iat"] = Num(1)
    /\ jar.payload["stales"] = Num(2500)
    /\ req["A"].seen.valid /\ ~req["A"].seen.stale
    /\ res["A"].cookie.payload["stales"] = Num(3000)

(* C10: the active guard passes the request iff a JWT is attached with     *)
(* valid = true and stale = false; it fails with 'JWT is invalid' whenever *)
(* valid = false, whatever stale is, and when no JWT is attached, and with *)
(* 'JWT is stale' when valid = true and stale = true.                      *)
C10_ActiveGuard ==
    \A r \in Reqs : req[r].by = "active" =>
      /\ req[r].next = "ok" <=>
           (req[r].jwt # NoJWT /\ req[r].jwt.valid /\ ~req[r].jwt.stale)
      /\ req[r].next = "JWT is invalid" <=> (req[r].jwt = NoJWT \/ ~req[r].jwt.valid)
      /\ req[r].next = "JWT is stale" <=>
           (req[r].jwt # NoJWT /\ req[r].jwt.valid /\ req[r].jwt.stale)

C10_Witness ==
    /\ req["A"].by = "active"
    /\ req["A"].jwt.valid /\ req["A"].jwt.stale
    /\ req["A"].next = "JWT is stale"

(* ------------------------------ guards --------------------------------- *)
(* the value a guard reads under key k on request r: undefined when no JWT *)
(* is attached                                                             *)
Actual(r, k) == IF req[r].jwt = NoJWT THEN Undefined ELSE req[r].jwt.payload[k]

(* the JavaScript relation each operator names *)
Relation(operator, a, e) ==
    CASE operator = "==" -> LooseEq(a, e)
      [] operator = "===" -> StrictEq(a, e)
      [] operator = "!=" -> ~LooseEq(a, e)
      [] operator = "!==" -> ~StrictEq(a, e)
      [] operator = "<" -> Less(a, e)
      [] operator = "<=" -> LessEq(a, e)
      [] operator = ">" -> Less(e, a)
      [] operator = ">=" -> LessEq(e, a)

(* C11: on a request with no JWT attached the guards valid and active hand *)
(* 'JWT is invalid' to next and the guard of require compares undefined;   *)
(* the guard valid passes exactly when a JWT is attached and its valid is  *)
(* true.                                                                   *)
C11_GuardsWithoutJWT ==
    \A r \in Reqs :
        /\ (req[r].by \in {"valid", "active"} /\ req[r].jwt = NoJWT)
               => req[r].next = "JWT is invalid"
        /\ (req[r].by = "require" /\ req[r].jwt = NoJWT)
               => /\ req[r].next = "ok" <=>
                       Relation(guard.operator, Undefined, guard.value)
                  /\ req[r].next # "ok" => req[r].err.data = Undefined
        /\ req[r].by = "valid"
               => (req[r].next = "ok" <=> (req[r].jwt # NoJWT /\ req[r].jwt.valid))

C11_Witness ==
    /\ req["A"].by = "valid"
    /\ req["A"].jwt = NoJWT
    /\ req["A"].next = "JWT is invalid"
    /\ guard.built

(* C12: a guard built by require with only a key compares with == and      *)
(* true on every request: it passes when payload[key] is true, and when    *)
(* payload[key] is false or missing it hands 'JWT is insufficient' to next *)
(* with key, data, operator '==' and value true.                           *)
KeyOnly(g) ==
    /\ g.built
    /\ g.operator = "" \/ (g.operator = "==" /\ g.value = Bool(TRUE))

RequireRan(r) ==
    /\ req[r].stage \in {"arrived", "entered"}
    /\ req'[r].stage = req[r].stage
    /\ req'[r].by = "require"

C12_KeyOnlyGuard ==
    [][\A r \in Reqs : (KeyOnly(guard) /\ RequireRan(r)) =>
          LET data == Actual(r, guard.key)
          IN /\ guard'.operator = "==" /\ guard'.value = Bool(TRUE)
             /\ data = Bool(TRUE) => req'[r].next = "ok"
             /\ data \in {Bool(FALSE), Undefined} =>
                   /\ req'[r].next = "JWT is insufficient"
                   /\ req'[r].err = [key |-> guard.key, data |-> data,
                                     operator |-> "==", value |-> Bool(TRUE)]]_vars

C12_Witness ==
    /\ req["A"].by = "require"
    /\ req["A"].jwt # NoJWT
    /\ req["A"].jwt.payload["admin"] = Bool(FALSE)
    /\ req["A"].err = [key |-> "admin", data |-> Bool(FALSE),
                       operator |-> "==", value |-> Bool(TRUE)]

(* C13: for each of the eight operators and every actual and expected      *)
(* value, the guard of require passes exactly when the relation the        *)
(* operator names holds; require('level', '>', 3) passes with level 4 and  *)
(* fails with level 3.                                                     *)
C13_OperatorTable ==
    \A r \in Reqs : (req[r].by = "require" /\ guard.operator \in Operators) =>
        LET data == Actual(r, guard.key)
        IN /\ req[r].next = "ok" <=> Relation(guard.operator, data, guard.value)
           /\ (guard.operator = ">" /\ guard.value = Num(3) /\ data = Num(4))
                 => req[r].next = "ok"
           /\ (guard.operator = ">" /\ guard.value = Num(3) /\ data = Num(3))
                 => req[r].next = "JWT is insufficient"

C13_Witness ==
    /\ req["A"].by = "require"
    /\ guard = [built |-> TRUE, key |-> "level", operator |-> ">", value |-> Num(3)]
    /\ Actual("A", "level") = Num(3)
    /\ req["A"].next = "JWT is insufficient"

(* ------------------------- configuration errors ------------------------ *)
(* C14: configuration errors are thrown when the module or a guard is      *)
(* constructed and never while a request is handled: require never returns *)
(* a guard with an unsupported operator or without a key, init and create  *)
(* never accept a missing secret, a call that throws leaves the options    *)
(* and everything else as they were, and no middleware throws or hands     *)
(* anything but its own verdict to next.                                   *)
Verdicts == {"none", "ok", "JWT is invalid", "JWT is stale", "JWT is insufficient"}

C14_ConfigErrorsAtConstruction ==
    [][/\ guard'.built => (guard'.key # "" /\ guard'.operator \in Operators \cup {""})
       /\ initialized' => secret' \in Secrets
       /\ jwt' # NoJWT => jwt'.secret \in Secrets
       /\ thrown' # thrown =>
             /\ thrown'.by \in {"init", "create", "require"}
             /\ UNCHANGED <<options, secret, initialized, guard, jwt, req, res, clear>>
       /\ req' # req => (thrown' = thrown /\ \A r \in Reqs : req'[r].next \in Verdicts)]_vars

C14_Witness ==
    /\ thrown = [by |-> "require", name |-> "JWTExpressError"]
    /\ guard.built
    /\ req["A"].by = "require"
    /\ initialized /\ options # NoOptions

(* ------------------------------- verify -------------------------------- *)
(* C15: after verify, valid is true exactly when the codec accepted the    *)
(* token of this call and the additional verify function returned true.    *)
C15_ValidIffCodecAndHook ==
    JustVerified => (jwt.valid <=> (CodecResult.ok /\ options.verify = "allow"))

(* C16: verify returns the JWT for every raw input: token holds the input  *)
(* ('' when none was given), and payload is always an object, the decoded  *)
(* payload of the input when it has one and empty otherwise.               *)
IsObject(payload) == \A k \in Keys : payload[k].t # "null"
Decodable(tok) == tok.kind \in {"signed", "tampered"}

C16_VerifyTotal ==
    JustVerified =>
        /\ jwt.token = (IF last.token.kind = "undefined" THEN EmptyToken ELSE last.token)
        /\ IsObject(jwt.payload)
        /\ Decodable(last.token) => jwt.payload = last.token.payload
        /\ ~Decodable(last.token) => jwt.payload = EmptyPayload

C16_Witness ==
    /\ last.op = "verify" /\ ~last.ticked
    /\ last.token = Malformed
    /\ last.pre.valid
    /\ jwt.token = Malformed
    /\ jwt.payload = EmptyPayload

(* -------------------------------- clear -------------------------------- *)
(* C17: clear called while request r is handled, after r went through the  *)
(* entry middleware, clears the cookie on the response of r and touches no *)
(* other response, however the requests in flight interleave.              *)
ClearCalledBy(r) ==
    /\ clearLog' # clearLog
    /\ clearLog'.caller = r
    /\ req[r].stage = "entered"

C17_ClearScopedToRequest ==
    [][\A r \in Reqs : ClearCalledBy(r) =>
          /\ options.cookies => res'[r].cookie = ClearedCookie
          /\ \A q \in Reqs \ {r} : res'[q] = res[q]]_vars

(* C18: clear throws 'init must be called before clear' exactly when init  *)
(* has not been called.                                                    *)
C18_ClearThrowsIffNotInitialized ==
    clearLog.called => (clearLog.threw <=> ~clearLog.inited)

(* C19: no step taken while requests are handled (the entry middleware,    *)
(* the guards, clear, the end of a response) changes the options, the      *)
(* secret, the parameters of a guard, or the module's clear.               *)
RequestTimeStep == req' # req \/ res' # res \/ clearLog' # clearLog

C19_ConfigReadOnly ==
    [][RequestTimeStep => UNCHANGED <<options, secret, initialized, guard, clear>>]_vars

(* -------------------------------- toJSON ------------------------------- *)
(* C20: toJSON returns exactly the five fields token, payload, valid,      *)
(* expired and stale with the values the JWT holds, never the secret or    *)
(* the options, leaves the JWT unchanged, and calls on an unmodified JWT   *)
(* return identical values.                                                *)
C20_ToJSON ==
    [][json' # json =>
         LET out == json'[Len(json')]
         IN /\ DOMAIN out = {"token", "payload", "valid", "expired", "stale"}
            /\ out.token = jwt.token /\ out.payload = jwt.payload
            /\ out.valid = jwt.valid /\ out.expired = jwt.expired
            /\ out.stale = jwt.stale
            /\ jwt' = jwt
            /\ \A i \in 1..Len(json') : json'[i] = out]_vars

C20_Witness ==
    /\ Len(json) = 2
    /\ json[1] = json[2]
    /\ json[2].valid /\ json[2].expired
    /\ json[2].token = jwt.token

(* ------------------- require and the flags of the JWT ------------------ *)
(* C21: the verdict of the guard of require depends only on payload[key],  *)
(* the operator and the value, not on the flags valid, expired and stale:  *)
(* two requests whose JWTs hold the same payload[key] get the same verdict *)
(* whatever their flags, and a JWT with valid = false whose decoded        *)
(* payload satisfies the comparison passes the guard.                      *)
C21_RequireIgnoresFlags ==
    \A r \in Reqs : req[r].by = "require" =>
        /\ \A q \in Reqs :
              (req[q].by = "require" /\ Actual(q, guard.key) = Actual(r, guard.key))
                 => req[q].next = req[r].next
        /\ (~req[r].jwt.valid /\ Relation(guard.operator, Actual(r, guard.key), guard.value))
              => req[r].next = "ok"

C21_Witness ==
    /\ req["A"].by = "require" /\ req["B"].by = "require"
    /\ req["A"].jwt.payload["level"] = Num(4)
    /\ req["B"].jwt.payload["level"] = Num(4)
    /\ req["A"].jwt.valid /\ ~req["A"].jwt.stale
    /\ ~req["B"].jwt.valid /\ req["B"].jwt.expired
    /\ guard.operator = ">"
    /\ req["A"].next = "ok" /\ req["B"].next = "ok"

(* ------------------------------ next ----------------------------------- *)
(* C22: every run of a middleware calls next exactly once, with an error   *)
(* exactly when its check failed; the entry middleware calls next without  *)
(* an error, after it attached the JWT to the request and installed        *)
(* res.jwt and clear.                                                      *)
C22_NextExactlyOnce ==
    \A r \in Reqs : req[r].by # "none" =>
        /\ req[r].nexts = 1
        /\ req[r].by = "entry" =>
              /\ req[r].next = "ok"
              /\ req[r].jwt # NoJWT
              /\ res[r].issue
              /\ clear = r /\ res[r].bound
        /\ req[r].by = "active" =>
              (req[r].next # "ok" <=> (~req[r].jwt.valid \/ req[r].jwt.stale))
        /\ req[r].by = "valid" => (req[r].next # "ok" <=> ~req[r].jwt.valid)
        /\ req[r].by = "require" =>
              (req[r].next # "ok" <=>
                 ~Relation(guard.operator, Actual(r, guard.key), guard.value))

C22_Witness ==
    /\ req["A"].by = "active"
    /\ req["A"].stage = "entered"
    /\ req["A"].nexts = 1
    /\ ~req["A"].jwt.valid /\ req["A"].jwt.stale
    /\ req["A"].next = "JWT is invalid"
    /\ res["A"].issue

====
